---- MODULE Spec2Model ----
(***************************************************************************)
(* Streaming metrics of src/metrics.py: the NLL / BPD / Perplexity         *)
(* accumulators, the Metrics facade that owns them, and the generative     *)
(* perplexity pipeline (batching, chunking, EOS mask, accumulation).       *)
(*                                                                         *)
(* Tensors are flattened to sequences; a scalar is a sequence of length 1. *)
(* Loss values and weights are small integers, which float32 and float64   *)
(* represent and add exactly, so the sums below are the sums the code       *)
(* computes on these inputs.  Non-finite inputs (filtered by torchmetrics' *)
(* _cast_and_nan_check_input, outside this repository) are not drawn.      *)
(***************************************************************************)
EXTENDS Integers, Sequences, FiniteSets, TLC

VARIABLES
  \* ---- one NLL accumulator driven directly (SpecAcc)
  acc,            \* [mean_value, weight] of an NLL instance
  acc_alt,        \* a second NLL instance fed the same elements, re-batched
  hist,           \* elements <<value, weight>> accumulated by acc since reset
  last,           \* the last operation on acc: for an update, acc before it,
                  \* its arguments and how acc_alt was given them
  \* ---- the Metrics facade (Spec, SpecGen)
  train_nlls,     \* MetricCollection {nll, bpd, ppl}
  train_recons,
  valid_nlls,
  valid_recons,
  gen_ppl,
  sample_entropy,
  eval_ppl_batch_size,
  pad_token_id,
  op,             \* name of the last facade operation
  fresh,          \* a Metrics constructed at the last reset, fed the same calls
  reset_seen,     \* reset() has been called on a Metrics that had data
  steps,          \* facade operations so far
  call,           \* the last record_generative_perplexity call
  \* ---- the validity mask on one chunk (SpecMask)
  chunk,
  valid_tokens

accVars == <<acc, acc_alt, hist, last>>
metricVars == <<train_nlls, train_recons, valid_nlls, valid_recons,
                gen_ppl, sample_entropy>>
cfgVars == <<eval_ppl_batch_size, pad_token_id>>
ghostVars == <<op, fresh, reset_seen, steps, call>>
maskVars == <<chunk, valid_tokens>>
vars == <<accVars, metricVars, cfgVars, ghostVars, maskVars>>

(***************************************************************************)
(* Bounds                                                                  *)
(***************************************************************************)
MaxHist == 3        \* elements accumulated by acc between two resets
MaxSteps == 3       \* facade operations in one behaviour of Spec
MaxN == 5           \* samples of a batch (SpecGen)
MaxL == 3           \* sequence length of a batch (SpecGen)
MaxCells == 6       \* tokens N * L of a retokenized (padded) batch (SpecGen)
MaxRawCells == 10   \* tokens N * L of a pre-tokenized batch (SpecGen)
MaxB == 2           \* configured eval_ppl_batch_size
MaxCtx == 2         \* context size of the reference model (scaled down)
MaxChunk == 5       \* length of the chunk in SpecMask

(***************************************************************************)
(* Helpers on sequences                                                    *)
(***************************************************************************)
RECURSIVE SeqSum(_)
SeqSum(s) == IF s = <<>> THEN 0 ELSE Head(s) + SeqSum(Tail(s))

RECURSIVE Flatten(_)
Flatten(ss) == IF ss = <<>> THEN <<>> ELSE Head(ss) \o Flatten(Tail(ss))

Min(a, b) == IF a <= b THEN a ELSE b

SeqsUpTo(S, n) == UNION {[1..k -> S] : k \in 0..n}

(***************************************************************************)
(* NLL (a torchmetrics MeanMetric with update overridden)                  *)
(***************************************************************************)
\* the state a metric is constructed with and reset() returns it to
Acc0 == [mean_value |-> 0, weight |-> 0]

\* torch.broadcast_to(weight, value.shape): a one-element weight is repeated
broadcast_to(weight, n) ==
  IF Len(weight) = 1 THEN [i \in 1..n |-> weight[1]] ELSE weight

Broadcastable(value, weight) == Len(weight) = 1 \/ Len(weight) = Len(value)

\* NLL.update with the weight left unbroadcast
NLLupdate_NoBroadcast(a, value, weight) ==
  IF Len(value) = 0 THEN a
  ELSE [mean_value |-> a.mean_value + SeqSum(value),
        weight     |-> a.weight + SeqSum(weight)]

\* NLL.update as the base MeanMetric does it: value * weight is summed
NLLupdate_Weighted(a, value, weight) ==
  LET w == broadcast_to(weight, Len(value)) IN
  IF Len(value) = 0 THEN a
  ELSE [mean_value |-> a.mean_value
                         + SeqSum([i \in 1..Len(value) |-> value[i] * w[i]]),
        weight     |-> a.weight + SeqSum(w)]

\* NLL.update that assigns the weight instead of adding it
NLLupdate_Assign(a, value, weight) ==
  LET w == broadcast_to(weight, Len(value)) IN
  IF Len(value) = 0 THEN a
  ELSE [mean_value |-> a.mean_value + SeqSum(value),
        weight     |-> SeqSum(w)]

\* NLL.update: an empty value is a no-op; otherwise the sum of the values and
\* the sum of the broadcast weights are added to the two states
NLLupdate(a, value, weight) ==
  LET w == broadcast_to(weight, Len(value)) IN
  IF Len(value) = 0 THEN a
  ELSE [mean_value |-> a.mean_value + SeqSum(value),
        weight     |-> a.weight + SeqSum(w)]

\* self.mean_value / self.weight of BPD.compute and Perplexity.compute, as the
\* fraction <<numerator, denominator>>
MeanRatio(a) == <<a.mean_value, a.weight>>

\* equality of two fractions with non-zero denominators
RatEq(p, q) == p[1] * q[2] = q[1] * p[2]

(***************************************************************************)
(* SpecAcc: one NLL instance under update and reset                        *)
(***************************************************************************)
Values == {-1, 2, 4}
Weights == {0, 1, 3}

Payloads(n) ==
  {p \in [value : SeqsUpTo(Values, n), weight : SeqsUpTo(Weights, n)] :
     /\ Len(p.weight) >= 1
     /\ Broadcastable(p.value, p.weight)}

Elements(p) ==
  LET w == broadcast_to(p.weight, Len(p.value)) IN
  [i \in 1..Len(p.value) |-> <<p.value[i], w[i]>>]

ValuesOf(es) == [i \in 1..Len(es) |-> es[i][1]]
WeightsOf(es) == [i \in 1..Len(es) |-> es[i][2]]

NoLast ==
  [op |-> "none", pre |-> Acc0, value |-> <<>>, weight |-> <<0>>,
   k |-> 0, swap |-> FALSE]

AccIdle ==
  /\ acc = Acc0 /\ acc_alt = Acc0 /\ hist = <<>> /\ last = NoLast

\* acc.update(value, weight); acc_alt receives the same elements as two
\* smaller updates, split at k (k = 0: one of them is empty), the two in
\* either order
AccUpdate ==
  \E p \in Payloads(MaxHist - Len(hist)) :
  \E k \in {j \in 0..Len(p.value) : j = 0 \/ j < Len(p.value)},
     swap \in BOOLEAN :
    LET es == Elements(p)
        p1 == SubSeq(es, 1, k)
        p2 == SubSeq(es, k + 1, Len(es))
        u1 == IF swap THEN p2 ELSE p1
        u2 == IF swap THEN p1 ELSE p2
    IN
    /\ acc' = NLLupdate(acc, p.value, p.weight)
    /\ acc_alt' = NLLupdate(NLLupdate(acc_alt, ValuesOf(u1), WeightsOf(u1)),
                            ValuesOf(u2), WeightsOf(u2))
    /\ hist' = hist \o es
    /\ last' = [op |-> "update", pre |-> acc, value |-> p.value,
                weight |-> p.weight, k |-> k, swap |-> swap]

AccReset ==
  /\ hist # <<>>
  /\ acc' = Acc0
  /\ acc_alt' = Acc0
  /\ hist' = <<>>
  /\ last' = [NoLast EXCEPT !.op = "reset"]

(***************************************************************************)
(* Tokens, and the validity mask of record_generative_perplexity           *)
(***************************************************************************)
eos_token_id == "EOS"
TokA == "A"
TokB == "B"
TokPad == "PAD"

\* cumsum(-1) of a 0/1 row
RECURSIVE cumsum(_)
cumsum(s) ==
  IF s = <<>> THEN <<>>
  ELSE LET front == cumsum(SubSeq(s, 1, Len(s) - 1)) IN
       Append(front, (IF front = <<>> THEN 0 ELSE front[Len(front)])
                       + s[Len(s)])

is_eos(sample_chunk) ==
  [t \in 1..Len(sample_chunk) |->
     IF sample_chunk[t] = eos_token_id THEN 1 ELSE 0]

\* first_eos with the comparison >= 1 in place of == 1
first_eos_AtLeastOne(sample_chunk) ==
  LET c == cumsum(is_eos(sample_chunk)) IN
  [t \in 1..Len(sample_chunk) |-> c[t] >= 1]

\* (sample_chunk == eos_token_id).cumsum(-1) == 1
first_eos(sample_chunk) ==
  LET c == cumsum(is_eos(sample_chunk)) IN
  [t \in 1..Len(sample_chunk) |-> c[t] = 1]

\* sample_chunk != eos_token_id
token_mask(sample_chunk) ==
  [t \in 1..Len(sample_chunk) |-> sample_chunk[t] # eos_token_id]

\* the mask without the first_eos term
ValidTokens_NoFirstEos(sample_chunk) ==
  [t \in 1..(Len(sample_chunk) - 1) |-> token_mask(sample_chunk)[t + 1]]

\* first_eos[..., 1:] + token_mask[..., 1:]; + of two bool tensors is "or".
\* Entry t is the mask of position t of the chunk, counted from 0.
ValidTokens(sample_chunk) ==
  [t \in 1..(Len(sample_chunk) - 1) |->
     first_eos(sample_chunk)[t + 1] \/ token_mask(sample_chunk)[t + 1]]

Num(b) == IF b THEN 1 ELSE 0

(***************************************************************************)
(* SpecMask: the mask of one chunk                                         *)
(***************************************************************************)
MaskTokens == {TokA, TokB, eos_token_id}

NoMask == [done |-> FALSE, mask |-> <<>>]

MaskIdle == chunk = <<>> /\ valid_tokens = NoMask

ComputeMask ==
  /\ ~valid_tokens.done
  /\ valid_tokens' = [done |-> TRUE, mask |-> ValidTokens(chunk)]
  /\ UNCHANGED chunk

(***************************************************************************)
(* The generative perplexity pipeline                                      *)
(***************************************************************************)
\* A batch as record_generative_perplexity holds it at line 185: the token
\* ids and the attention mask, both [N, L], and the context size.
\* retokenize=False: the mask is all ones and the context size is L.
\* retokenize=True: the tokenizer pads on the right with pad_token_id up to
\* the longest sample, and the context size is that of the model family.
RowsOf(L, retokenize, pad) ==
  IF retokenize
  THEN {<<[t \in 1..L |-> IF t <= n THEN c[t] ELSE pad],
          [t \in 1..L |-> IF t <= n THEN 1 ELSE 0]>> :
          n \in 0..L, c \in [1..L -> {TokA, eos_token_id}]}
  ELSE {<<c, [t \in 1..L |-> 1]>> : c \in [1..L -> {TokA, eos_token_id}]}

\* the shape [N, L] is within the bounds; an empty batch only pre-tokenized
InBounds(N, L, retokenize, maxCells, maxRawCells) ==
  /\ N * L <= (IF retokenize THEN maxCells ELSE maxRawCells)
  /\ retokenize => N >= 1

\* padding=True pads to the longest sample: some row has no padding
Padded(rows, N, L) == \E r \in 1..N : rows[r][2][L] = 1

ContextSizes(L, retokenize) == IF retokenize THEN 1..MaxCtx ELSE {L}

BatchOf(rows, N, L, retokenize, ctx) ==
  [samples |-> [r \in 1..N |-> rows[r][1]],
   attn_mask |-> [r \in 1..N |-> rows[r][2]],
   N |-> N, L |-> L, retokenize |-> retokenize,
   eval_context_size |-> ctx]

\* batch_size taken from the configuration alone
batch_size_NoMin(B, N) == B

\* min(self.eval_ppl_batch_size, samples.shape[0])
batch_size(B, N) == Min(B, N)

\* the group count rounded up, so that the remainder is a group too
num_batches_Ceil(N, b) == (N + b - 1) \div b

\* samples.shape[0] // batch_size
num_batches(N, b) == N \div b

\* chunks that start on the last token of the chunk before
split_Overlap(rows, C, L) ==
  [k \in 1..((L + C - 1) \div C) |->
     [r \in 1..Len(rows) |->
        SubSeq(rows[r], IF k = 1 THEN 1 ELSE (k - 1) * C, Min(k * C, L))]]

\* torch.split(rows, C, dim=-1): chunks of C columns, the last one shorter
split(rows, C, L) ==
  [k \in 1..((L + C - 1) \div C) |->
     [r \in 1..Len(rows) |->
        SubSeq(rows[r], (k - 1) * C + 1, Min(k * C, L))]]

\* The reference model's loss at position t of a chunk row (the prediction of
\* token t+1 of the row, 1-based): an external model, here one that predicts a
\* repetition of the last token better than a change.
cross_entropy(row, t) == IF row[t + 1] = row[t] THEN 1 ELSE 2

\* nlls of one chunk, [b, len - 1]
Nlls(sample_chunk) ==
  [r \in 1..Len(sample_chunk) |->
     [t \in 1..(Len(sample_chunk[r]) - 1) |->
        cross_entropy(sample_chunk[r], t)]]

\* the loop body, lines 199-210: gen_ppl.update(nlls * valid_tokens,
\* valid_tokens)
ScoreChunk(a, sample_chunk) ==
  LET nlls == Nlls(sample_chunk)
      valid == [r \in 1..Len(sample_chunk) |-> ValidTokens(sample_chunk[r])]
      value == Flatten([r \in 1..Len(sample_chunk) |->
                 [t \in 1..Len(nlls[r]) |-> nlls[r][t] * Num(valid[r][t])]])
      weight == Flatten([r \in 1..Len(sample_chunk) |->
                 [t \in 1..Len(nlls[r]) |-> Num(valid[r][t])]])
  IN NLLupdate(a, value, weight)

RECURSIVE ScoreChunks(_, _)
ScoreChunks(a, chunks) ==
  IF chunks = <<>> THEN a
  ELSE ScoreChunks(ScoreChunk(a, Head(chunks)), Tail(chunks))

\* samples[i * batch_size : (i + 1) * batch_size], i counted from 0; a slice
\* stops at the end of the tensor
Group(samples, i, b) ==
  SubSeq(samples, i * b + 1, Min((i + 1) * b, Len(samples)))

\* the outer loop from group i on
RECURSIVE ScoreGroups(_, _, _, _, _)
ScoreGroups(a, batch, b, i, n) ==
  IF i >= n THEN a
  ELSE ScoreGroups(
         ScoreChunks(a, split(Group(batch.samples, i, b),
                              batch.eval_context_size, batch.L)),
         batch, b, i + 1, n)

\* the 0-based index of every cell of a [N, L] tensor, to follow the slices
IndexTensor(N, L) == [r \in 1..N |-> [t \in 1..L |-> <<r - 1, t - 1>>]]

\* every pass of the loop body, in order: the rows and columns given to
\* eval_model, the columns of sample_chunk[..., 1:] (the targets of
\* cross_entropy), and the number of elements given to gen_ppl.update
RECURSIVE ScoredFrom(_, _, _, _)
ScoredFrom(batch, b, i, n) ==
  IF i >= n THEN <<>>
  ELSE LET chunks == split(Group(IndexTensor(batch.N, batch.L), i, b),
                           batch.eval_context_size, batch.L)
           tokens == split(Group(batch.samples, i, b),
                           batch.eval_context_size, batch.L)
       IN [k \in 1..Len(chunks) |->
             [rows |-> {chunks[k][r][1][1] : r \in 1..Len(chunks[k])},
              cols |-> {chunks[k][1][j][2] : j \in 1..Len(chunks[k][1])},
              targets |-> {chunks[k][1][j][2] : j \in 2..Len(chunks[k][1])},
              numel |-> Len(Flatten(Nlls(tokens[k])))]]
          \o ScoredFrom(batch, b, i + 1, n)

\* record_generative_perplexity from line 185 on: the accumulator after the
\* call, the eval_model calls made, and the error raised (0 // 0 when the
\* batch is empty)
GenPerplexity(a, batch, B) ==
  LET b == batch_size(B, batch.N) IN
  IF b = 0
  THEN [gen_ppl |-> a, scored |-> <<>>, error |-> "ZeroDivisionError"]
  ELSE [gen_ppl |-> ScoreGroups(a, batch, b, 0, num_batches(batch.N, b)),
        scored |-> ScoredFrom(batch, b, 0, num_batches(batch.N, b)),
        error |-> "none"]

(***************************************************************************)
(* record_entropy                                                          *)
(***************************************************************************)
\* 1000 * ln(k), rounded: entropies are kept in thousandths of a nat
LnMilli == <<0, 693, 1099, 1386, 1609, 1792>>

\* torch.unique(sample, return_counts=True), then entr(counts / counts.sum())
\* summed: ln(n) - (1/n) * sum(c * ln(c))
Entropy(sample) ==
  LET n == Len(sample)
      uniq == {sample[t] : t \in 1..n}
      count(u) == Cardinality({t \in 1..n : sample[t] = u})
      RECURSIVE clnc(_)
      clnc(U) == IF U = {} THEN 0
                 ELSE LET u == CHOOSE x \in U : TRUE
                      IN count(u) * LnMilli[count(u)] + clnc(U \ {u})
  IN (n * LnMilli[n] - clnc(uniq)) \div n

\* torchmetrics MeanMetric.update, which sample_entropy keeps: value * weight
\* and weight are summed
MeanMetric_update(a, value, weight) ==
  LET w == broadcast_to(weight, Len(value)) IN
  IF Len(value) = 0 THEN a
  ELSE [mean_value |-> a.mean_value
                         + SeqSum([i \in 1..Len(value) |-> value[i] * w[i]]),
        weight     |-> a.weight + SeqSum(w)]

(***************************************************************************)
(* Metrics                                                                 *)
(***************************************************************************)
\* Metrics.__init__: every accumulator is an object of its own, at zero
MetricsNew ==
  [train_nlls     |-> [nll |-> Acc0, bpd |-> Acc0, ppl |-> Acc0],
   train_recons   |-> Acc0,
   valid_nlls     |-> [nll |-> Acc0, bpd |-> Acc0, ppl |-> Acc0],
   valid_recons   |-> Acc0,
   gen_ppl        |-> Acc0,
   sample_entropy |-> Acc0]

\* MetricCollection.update: every metric of the collection is updated
CollectionUpdate(c, value, weight) ==
  [k \in DOMAIN c |-> NLLupdate(c[k], value, weight)]

CollectionReset(c) == [k \in DOMAIN c |-> Acc0]

update_train(m, nll, recons_loss, num_tokens) ==
  [m EXCEPT !.train_nlls = CollectionUpdate(@, nll, num_tokens),
            !.train_recons = NLLupdate(@, recons_loss, num_tokens)]

\* update_valid that writes the reconstruction loss to the train accumulator
update_valid_Mixed(m, nll, recons_loss, num_tokens) ==
  [m EXCEPT !.valid_nlls = CollectionUpdate(@, nll, num_tokens),
            !.train_recons = NLLupdate(@, recons_loss, num_tokens)]

update_valid(m, nll, recons_loss, num_tokens) ==
  [m EXCEPT !.valid_nlls = CollectionUpdate(@, nll, num_tokens),
            !.valid_recons = NLLupdate(@, recons_loss, num_tokens)]

\* reset that leaves valid_recons as it is
reset_SkipValidRecons(m) ==
  [m EXCEPT !.gen_ppl = Acc0,
            !.sample_entropy = Acc0,
            !.train_nlls = CollectionReset(@),
            !.train_recons = Acc0,
            !.valid_nlls = CollectionReset(@)]

reset(m) ==
  [m EXCEPT !.gen_ppl = Acc0,
            !.sample_entropy = Acc0,
            !.train_nlls = CollectionReset(@),
            !.train_recons = Acc0,
            !.valid_nlls = CollectionReset(@),
            !.valid_recons = Acc0]

\* for sample in tokens: self.sample_entropy.update(entropy)
RECURSIVE record_entropy(_, _)
record_entropy(m, tokens) ==
  IF tokens = <<>> THEN m
  ELSE record_entropy(
         [m EXCEPT !.sample_entropy =
                     MeanMetric_update(@, <<Entropy(Head(tokens))>>, <<1>>)],
         Tail(tokens))

record_generative_perplexity(m, batch, B) ==
  [m EXCEPT !.gen_ppl = GenPerplexity(@, batch, B).gen_ppl]

(***************************************************************************)
(* The facade as a state machine                                           *)
(***************************************************************************)
Self ==
  [train_nlls |-> train_nlls, train_recons |-> train_recons,
   valid_nlls |-> valid_nlls, valid_recons |-> valid_recons,
   gen_ppl |-> gen_ppl, sample_entropy |-> sample_entropy]

Becomes(m) ==
  /\ train_nlls' = m.train_nlls
  /\ train_recons' = m.train_recons
  /\ valid_nlls' = m.valid_nlls
  /\ valid_recons' = m.valid_recons
  /\ gen_ppl' = m.gen_ppl
  /\ sample_entropy' = m.sample_entropy

Is(m) ==
  /\ train_nlls = m.train_nlls
  /\ train_recons = m.train_recons
  /\ valid_nlls = m.valid_nlls
  /\ valid_recons = m.valid_recons
  /\ gen_ppl = m.gen_ppl
  /\ sample_entropy = m.sample_entropy

NoCall ==
  [made |-> FALSE, samples |-> <<>>, attn_mask |-> <<>>, N |-> 0, L |-> 1,
   retokenize |-> FALSE, eval_context_size |-> 1,
   pre |-> Acc0, scored |-> <<>>, error |-> "none"]

NllVals == {1, 3}
ReconsVals == {2}
TokenCounts == {1, 2}
EntropyBatches ==
  {<<<<TokA, TokA>>>>, <<<<TokA, eos_token_id>>>>,
   <<<<TokA, eos_token_id>>, <<TokA, TokA, TokA>>>>}

MetricsInit ==
  /\ Is(MetricsNew)
  /\ \E k \in 1..MaxB : eval_ppl_batch_size = MaxB + 1 - k
  /\ pad_token_id \in {eos_token_id, TokPad}
  /\ op = "init"
  /\ fresh = MetricsNew
  /\ reset_seen = "no"
  /\ steps = 0
  /\ call = NoCall

\* what every facade operation does besides its effect on the accumulators
Step(name, m, f, c) ==
  /\ steps < MaxSteps
  /\ Becomes(m)
  /\ fresh' = (IF reset_seen = "no" THEN fresh ELSE f)
  /\ op' = name
  /\ steps' = steps + 1
  /\ call' = c
  /\ UNCHANGED <<reset_seen, cfgVars, accVars, maskVars>>

UpdateTrain ==
  \E nll \in NllVals, recons_loss \in ReconsVals, num_tokens \in TokenCounts :
    Step("update_train",
         update_train(Self, <<nll>>, <<recons_loss>>, <<num_tokens>>),
         update_train(fresh, <<nll>>, <<recons_loss>>, <<num_tokens>>),
         NoCall)

UpdateValid ==
  \E nll \in NllVals, recons_loss \in ReconsVals, num_tokens \in TokenCounts :
    Step("update_valid",
         update_valid(Self, <<nll>>, <<recons_loss>>, <<num_tokens>>),
         update_valid(fresh, <<nll>>, <<recons_loss>>, <<num_tokens>>),
         NoCall)

RecordEntropy ==
  \E tokens \in EntropyBatches :
    Step("record_entropy", record_entropy(Self, tokens),
         record_entropy(fresh, tokens), NoCall)

\* the call's record: the batch, gen_ppl before it, the eval_model calls made
\* and the error raised
CallOf(batch) ==
  LET g == GenPerplexity(gen_ppl, batch, eval_ppl_batch_size) IN
  [made |-> TRUE, samples |-> batch.samples, attn_mask |-> batch.attn_mask,
   N |-> batch.N, L |-> batch.L, retokenize |-> batch.retokenize,
   eval_context_size |-> batch.eval_context_size,
   pre |-> gen_ppl, scored |-> g.scored, error |-> g.error]

\* recorded: whether the call's record is kept (it is in SpecGen)
GenCall(batch, recorded) ==
  Step("record_generative_perplexity",
       record_generative_perplexity(Self, batch, eval_ppl_batch_size),
       record_generative_perplexity(fresh, batch, eval_ppl_batch_size),
       IF recorded THEN CallOf(batch) ELSE NoCall)

\* the call on any batch within the bounds, the larger batches first
RecordWithin(maxN, maxL, maxCells, maxRawCells, recorded) ==
  \E n \in 0..maxN, l \in 1..maxL, retokenize \in BOOLEAN :
    LET N == maxN - n
        L == maxL + 1 - l
    IN
    /\ InBounds(N, L, retokenize, maxCells, maxRawCells)
    /\ \E rows \in [1..N -> RowsOf(L, retokenize, pad_token_id)],
          ctx \in ContextSizes(L, retokenize) :
         /\ retokenize => Padded(rows, N, L)
         /\ GenCall(BatchOf(rows, N, L, retokenize, ctx), recorded)

\* inside Spec the batch is empty or one sample of one or two tokens
RecordGenerativePerplexity == RecordWithin(1, 2, 2, 2, FALSE)

Reset ==
  /\ steps < MaxSteps
  /\ Becomes(reset(Self))
  /\ fresh' = MetricsNew
  /\ reset_seen' = (IF Self = MetricsNew THEN "clean" ELSE "dirty")
  /\ op' = "reset"
  /\ steps' = steps + 1
  /\ call' = NoCall
  /\ UNCHANGED <<cfgVars, accVars, maskVars>>

Init == MetricsInit /\ AccIdle /\ MaskIdle

Next ==
  \/ UpdateTrain
  \/ UpdateValid
  \/ RecordEntropy
  \/ RecordGenerativePerplexity
  \/ Reset

Spec == Init /\ [][Next]_vars

(***************************************************************************)
(* SpecGen: one call of record_generative_perplexity on a constructed      *)
(* Metrics, over every batch within the bounds                             *)
(***************************************************************************)
RecordOnce ==
  /\ steps = 0
  /\ RecordWithin(MaxN, MaxL, MaxCells, MaxRawCells, TRUE)

NextGen == RecordOnce

SpecGen == Init /\ [][NextGen]_vars

(***************************************************************************)
(* SpecAcc: one NLL instance                                               *)
(***************************************************************************)
MetricsIdle ==
  /\ Is(MetricsNew)
  /\ eval_ppl_batch_size = 1
  /\ pad_token_id = eos_token_id
  /\ op = "init" /\ fresh = MetricsNew /\ reset_seen = "no" /\ steps = 0
  /\ call = NoCall

InitAcc == AccIdle /\ MetricsIdle /\ MaskIdle

NextAcc ==
  \/ AccUpdate /\ UNCHANGED <<metricVars, cfgVars, ghostVars, maskVars>>
  \/ AccReset /\ UNCHANGED <<metricVars, cfgVars, ghostVars, maskVars>>

SpecAcc == InitAcc /\ [][NextAcc]_vars

(***************************************************************************)
(* SpecMask: the validity mask of every chunk up to MaxChunk tokens        *)
(***************************************************************************)
InitMask ==
  /\ chunk \in UNION {[1..n -> MaskTokens] : n \in 1..MaxChunk}
  /\ valid_tokens = NoMask
  /\ AccIdle /\ MetricsIdle

NextMask ==
  ComputeMask /\ UNCHANGED <<accVars, metricVars, cfgVars, ghostVars>>

SpecMask == InitMask /\ [][NextMask]_vars

(***************************************************************************)
(* Properties of the accumulator (SpecAcc)                                 *)
(***************************************************************************)
SumV(es) == SeqSum(ValuesOf(es))
SumW(es) == SeqSum(WeightsOf(es))
SumVW(es) == SeqSum([i \in 1..Len(es) |-> es[i][1] * es[i][2]])

\* the updates (value=2.0, weight=1) then (value=4.0, weight=3)
TwoUpdates == <<<<2, 1>>, <<4, 3>>>>

NonNegative(s) == \A i \in 1..Len(s) : s[i] >= 0

\* C1, as stated: with positive total weight, compute() is
\* sum(value_i * weight_i) / sum(weight_i) over the accumulated elements, and
\* the updates (2, 1), (4, 3) give 3.5
C1_WeightedMeanAsStated ==
  /\ SumW(hist) > 0 =>
       /\ acc.weight > 0
       /\ RatEq(MeanRatio(acc), <<SumVW(hist), SumW(hist)>>)
  /\ hist = TwoUpdates => RatEq(MeanRatio(acc), <<7, 2>>)

\* C1, amended: with positive total weight, compute() is
\* sum(value_i) / sum(weight_i): the running sum holds the plain sum of the
\* values and the running count the sum of the weights; the updates (2, 1),
\* (4, 3) give (2 + 4) / (1 + 3) = 1.5
C1_MeanOfSums ==
  /\ acc.mean_value = SumV(hist)
  /\ acc.weight = SumW(hist)
  /\ SumW(hist) > 0 => RatEq(MeanRatio(acc), <<SumV(hist), SumW(hist)>>)
  /\ hist = TwoUpdates => RatEq(MeanRatio(acc), <<3, 2>>)

C1_TwoUpdatesDone ==
  /\ hist = TwoUpdates
  /\ last.op = "update"
  /\ last.value = <<4>> /\ last.weight = <<3>>

\* C8: an accumulator given the same elements in other batches (an update
\* split in two, the two parts in either order) ends with the same weighted
\* sum, weighted count and mean
C8_BatchingIndependent ==
  /\ acc_alt.mean_value = acc.mean_value
  /\ acc_alt.weight = acc.weight
  /\ acc.weight # 0 => RatEq(MeanRatio(acc_alt), MeanRatio(acc))

C8_SplitAndSwapped ==
  /\ last.op = "update"
  /\ Len(last.value) >= 2
  /\ Len(last.weight) = 1 /\ last.weight[1] > 0
  /\ last.k = 1 /\ last.swap
  /\ last.pre # Acc0

\* C9, as stated: weighted_count >= 0 always; an update whose weights are
\* non-negative lowers neither field; reset sets both to zero
C9_MonotoneAsStated ==
  /\ acc.weight >= 0
  /\ (last.op = "update" /\ NonNegative(last.weight)) =>
       /\ acc.mean_value >= last.pre.mean_value
       /\ acc.weight >= last.pre.weight
  /\ last.op = "reset" => acc = Acc0

\* C9, amended: weighted_count >= 0 always; an update whose weights are
\* non-negative does not lower weighted_count, and one whose values are
\* non-negative does not lower weighted_sum (the weighted sum is the sum of
\* the values, whatever the weights); reset sets both to zero
C9_MonotoneNonNegativeValues ==
  /\ acc.weight >= 0
  /\ (last.op = "update" /\ NonNegative(last.weight)) =>
       acc.weight >= last.pre.weight
  /\ (last.op = "update" /\ NonNegative(last.value)) =>
       acc.mean_value >= last.pre.mean_value
  /\ last.op = "reset" => acc = Acc0

C9_UpdateOnData ==
  /\ last.op = "update"
  /\ last.pre.weight > 0
  /\ last.value # <<>> /\ NonNegative(last.value)
  /\ acc.mean_value > last.pre.mean_value

(***************************************************************************)
(* Properties of the validity mask (SpecMask)                              *)
(***************************************************************************)
\* the number of EOS tokens at positions 0..t of the row (t counted from 0)
EosUpTo(row, t) == Cardinality({j \in 1..(t + 1) : row[j] = eos_token_id})

\* C2: at every position t >= 1 of a chunk the mask is true iff the token is
\* not EOS or is the first EOS of the chunk; [A, B, EOS, EOS, EOS] gives
\* [valid, valid, invalid, invalid]
C2_MaskFirstEos ==
  valid_tokens.done =>
    /\ Len(valid_tokens.mask) = Len(chunk) - 1
    /\ \A t \in 1..(Len(chunk) - 1) :
         valid_tokens.mask[t] <=>
           (chunk[t + 1] # eos_token_id \/ EosUpTo(chunk, t) = 1)
    /\ chunk = <<TokA, TokB, eos_token_id, eos_token_id, eos_token_id>> =>
         valid_tokens.mask = <<TRUE, TRUE, FALSE, FALSE>>

C2_ExampleMasked ==
  /\ valid_tokens.done
  /\ chunk = <<TokA, TokB, eos_token_id, eos_token_id, eos_token_id>>

(***************************************************************************)
(* Properties of record_generative_perplexity (SpecGen)                    *)
(***************************************************************************)
\* the call's batch, and the quantities the statements name
CallBatch ==
  [samples |-> call.samples, attn_mask |-> call.attn_mask, N |-> call.N,
   L |-> call.L, retokenize |-> call.retokenize,
   eval_context_size |-> call.eval_context_size]

Scored(c) == c.made /\ c.error = "none"

GroupSize == Min(eval_ppl_batch_size, call.N)
\* the number of groups scored: none when the group size is 0
FullGroups == IF GroupSize = 0 THEN 0 ELSE call.N \div GroupSize
FullRows == FullGroups * GroupSize
ChunksPerRow ==
  (call.L + call.eval_context_size - 1) \div call.eval_context_size

\* position p (from 0) of a sequence has a loss value: it is not the first
\* position of its chunk
HasLoss(p) == p % call.eval_context_size # 0

\* no EOS at the positions lo..p-1 (from 0) of the row
NoEosIn(row, lo, p) == \A q \in lo..(p - 1) : row[q + 1] # eos_token_id

\* the first position of the chunk that holds position p
ChunkStart(p) == (p \div call.eval_context_size) * call.eval_context_size

\* a position with a loss whose token is not EOS, or is the first EOS of its
\* chunk
MaskValid(r, p) ==
  /\ HasLoss(p)
  /\ \/ call.samples[r + 1][p + 1] # eos_token_id
     \/ NoEosIn(call.samples[r + 1], ChunkStart(p), p)

\* a position with a loss that is neither padding nor an EOS after the first
\* EOS of its sequence
StatedValid(r, p) ==
  /\ HasLoss(p)
  /\ call.attn_mask[r + 1][p + 1] = 1
  /\ \/ call.samples[r + 1][p + 1] # eos_token_id
     \/ NoEosIn(call.samples[r + 1], 0, p)

Positions(rows) == (0..(rows - 1)) \X (0..(call.L - 1))

WithRemainder(alt) ==
  [CallBatch EXCEPT
     !.samples = [r \in 1..call.N |->
                    IF r <= FullRows THEN call.samples[r] ELSE alt[r][1]],
     !.attn_mask = [r \in 1..call.N |->
                      IF r <= FullRows THEN call.attn_mask[r] ELSE alt[r][2]]]

\* C4: with N >= 1 the group size is min(B, N); floor(N / b) groups are
\* scored, made of the samples 0 .. floor(N/b)*b - 1 in order; no sample of
\* the remainder is scored, gen_ppl does not depend on the remainder, and no
\* error is raised
C4_FullGroupsOnly ==
  (call.made /\ call.N >= 1) =>
    /\ call.error = "none"
    /\ Len(call.scored) = FullGroups * ChunksPerRow
    /\ \A e \in 1..Len(call.scored) :
         LET i == (e - 1) \div ChunksPerRow IN
         call.scored[e].rows =
           {r \in 0..(call.N - 1) :
              i * GroupSize <= r /\ r < (i + 1) * GroupSize}
    /\ \A alt \in [(FullRows + 1)..call.N ->
                     RowsOf(call.L, call.retokenize, pad_token_id)] :
         GenPerplexity(call.pre, WithRemainder(alt),
                       eval_ppl_batch_size).gen_ppl = gen_ppl

C4_RemainderDropped ==
  /\ Scored(call)
  /\ call.N = 5 /\ eval_ppl_batch_size = 2
  /\ Len(call.scored) = 2
  /\ call.samples[5] = <<TokA, TokA>>
  /\ gen_ppl.weight > 0

\* C5, as stated: with N < batch_size (N = 0 included) no chunk is scored,
\* gen_ppl is unchanged and no error is raised
C5_NothingScoredAsStated ==
  (call.made /\ call.N < eval_ppl_batch_size) =>
    /\ call.scored = <<>>
    /\ gen_ppl = call.pre
    /\ call.error = "none"

\* C5, amended: with 1 <= N < batch_size the group size is N, the N samples
\* are scored as one group (every chunk of it), gen_ppl gains their valid
\* positions and no error is raised; with N = 0 the group size is 0, the
\* group count raises a division by zero, nothing is scored and gen_ppl is
\* unchanged
C5_SmallBatchIsOneGroup ==
  (call.made /\ call.N < eval_ppl_batch_size) =>
    /\ call.N >= 1 =>
         /\ call.error = "none"
         /\ Len(call.scored) = ChunksPerRow
         /\ \A e \in 1..Len(call.scored) :
              call.scored[e].rows = 0..(call.N - 1)
         /\ gen_ppl.weight = call.pre.weight
              + Cardinality({x \in Positions(call.N) :
                               MaskValid(x[1], x[2])})
    /\ call.N = 0 =>
         /\ call.error = "ZeroDivisionError"
         /\ call.scored = <<>>
         /\ gen_ppl = call.pre

C5_SmallBatchScored ==
  /\ Scored(call)
  /\ call.N = 1 /\ eval_ppl_batch_size = 2
  /\ gen_ppl.weight > call.pre.weight

\* C10: every group is split into ceil(L / C) contiguous chunks of C columns
\* (the last one shorter), each scored on its own; the first position of a
\* chunk is no target, so L - ceil(L / C) positions per sequence have a loss,
\* the token at k * C never has one, and a chunk of one column gives an empty
\* update
C10_Chunking ==
  call.made =>
    \A e \in 1..Len(call.scored) :
      LET k == (e - 1) % ChunksPerRow
          lo == k * call.eval_context_size
          hi == Min(lo + call.eval_context_size, call.L) - 1
          group == {f \in 1..Len(call.scored) :
                      (f - 1) \div ChunksPerRow = (e - 1) \div ChunksPerRow}
          targets == UNION {call.scored[f].targets : f \in group}
      IN /\ call.scored[e].cols = lo..hi
         /\ call.scored[e].targets = (lo + 1)..hi
         /\ call.scored[e].numel
              = Cardinality(call.scored[e].rows) * (hi - lo)
         /\ hi = lo => call.scored[e].numel = 0
         /\ Cardinality(group) = ChunksPerRow
         /\ Cardinality(targets) = call.L - ChunksPerRow
         /\ \A j \in 0..(call.L - 1) :
              j % call.eval_context_size = 0 => j \notin targets

C10_LastChunkOfOne ==
  /\ Scored(call)
  /\ call.L = 3 /\ call.eval_context_size = 2
  /\ Len(call.scored) = 2
  /\ call.scored[2].numel = 0
  /\ gen_ppl.weight > 0

(***************************************************************************)
(* Properties of the facade (Spec)                                         *)
(***************************************************************************)
\* C6: update_train changes the train accumulators only, update_valid the
\* validation accumulators only; gen_ppl and sample_entropy are changed by
\* neither
C6_NoMixing ==
  [][/\ op' = "update_train" =>
          /\ UNCHANGED <<valid_nlls, valid_recons, gen_ppl, sample_entropy>>
          /\ train_recons'.weight > train_recons.weight
          /\ \A k \in DOMAIN train_nlls :
               train_nlls'[k].weight > train_nlls[k].weight
     /\ op' = "update_valid" =>
          /\ UNCHANGED <<train_nlls, train_recons, gen_ppl, sample_entropy>>
          /\ valid_recons'.weight > valid_recons.weight
          /\ \A k \in DOMAIN valid_nlls :
               valid_nlls'[k].weight > valid_nlls[k].weight]_vars

C6_BothSetsHoldData ==
  /\ op = "update_valid"
  /\ train_recons # Acc0
  /\ valid_recons # Acc0
  /\ train_nlls.nll # valid_nlls.nll

\* C7: reset zeroes every accumulator, and after a reset the Metrics is in
\* the state of a Metrics constructed at that moment and given the same
\* updates
C7_ResetIsFresh ==
  /\ op = "reset" => Is(MetricsNew)
  /\ reset_seen # "no" => Is(fresh)

C7_UpdatedAfterReset ==
  /\ reset_seen = "dirty"
  /\ op = "update_valid"
  /\ valid_recons # Acc0

====
